---- MODULE Spec2Model ----
(***************************************************************************)
(* LRUMap<K, T, N>: a hash index (key -> slot index) layered over          *)
(* Cache<(K, T), N>, a doubly linked recency list threaded through a       *)
(* fixed-capacity ArrayVec of entries (src/cache.rs, src/lib.rs).          *)
(*                                                                         *)
(* Slot indices are the 0-based u16 indices of the source; entry i of the  *)
(* ArrayVec is entries[i + 1] of the TLA+ sequence.  An out-of-bounds      *)
(* `self.entries[i]` panics in Rust: the cache record carries the flag ok, *)
(* which an operation clears when it would panic.                          *)
(***************************************************************************)
EXTENDS Integers, Sequences, FiniteSets, TLC

\* Largest capacity N the model instantiates LRUMap with.
MaxN == 2
\* Keys are 1..NumKeys, values 1..NumVals.
NumKeys == 3
NumVals == 2

Keys == 1..NumKeys
Vals == 1..NumVals
Capacities == 1..MaxN

\* Option<T>
None == << >>
Some(x) == << x >>

VARIABLES
    N,          \* const generic N: the capacity of the ArrayVec
    cache,      \* LRUMap.cache: [entries, head, tail, ok]
    indices,    \* LRUMap.indices: HashMap<K, u16>, a function on the bound keys
    last,       \* the last public call: [op, key, value, pred, ret]
    pre,        \* the map as it was when the last call started: [cache, indices]
    fresh       \* a newly constructed map given the calls made since the last
                \* clear(): [cache, indices, ret, cleared, head]

vars == << N, cache, indices, last, pre, fresh >>

----------------------------------------------------------------------------
\* Cache<T, N> (src/cache.rs)

\* Entry { val, prev: 0, next: 0 }
Entry(val) == [val |-> val, prev |-> 0, next |-> 0]

\* Cache::default: entries empty, head = 0, tail = 0
CacheDefault == [entries |-> << >>, head |-> 0, tail |-> 0, ok |-> TRUE]

\* the index check of `self.entries[i as usize]`
InBounds(c, i) == i < Len(c.entries)

\* an out-of-bounds index: the operation panics
Panic(c) == [c EXCEPT !.ok = FALSE]

\* self.entries[i].next = v
SetNext(c, i, v) ==
    IF ~c.ok \/ ~InBounds(c, i) THEN Panic(c)
    ELSE [c EXCEPT !.entries[i + 1].next = v]

\* self.entries[i].prev = v
SetPrev(c, i, v) ==
    IF ~c.ok \/ ~InBounds(c, i) THEN Panic(c)
    ELSE [c EXCEPT !.entries[i + 1].prev = v]

\* Cache::len
len(c) == Len(c.entries)

\* a clear that resets head and tail and leaves the entries in the ArrayVec
clear_keeps_entries(c) == [c EXCEPT !.head = 0, !.tail = 0]

\* Cache::clear: truncates the ArrayVec, head and tail keep their values
clear(c) == [c EXCEPT !.entries = << >>]

\* Cache::remove: unlink idx from the list; the ArrayVec keeps its length
remove(c, idx) ==
    IF ~c.ok \/ ~InBounds(c, idx) THEN Panic(c)
    ELSE LET prev == c.entries[idx + 1].prev
             next == c.entries[idx + 1].next
             c1 == IF idx = c.head THEN [c EXCEPT !.head = next]
                                   ELSE SetNext(c, prev, next)
         IN  IF idx = c1.tail THEN [c1 EXCEPT !.tail = prev]
                              ELSE SetPrev(c1, next, prev)

\* a push_front without the case of the first entry: it always links idx to head
push_front_always_links(c, idx) ==
    IF ~c.ok THEN c
    ELSE [SetPrev(SetNext(c, idx, c.head), c.head, idx) EXCEPT !.head = idx]

\* Cache::push_front
push_front(c, idx) ==
    IF ~c.ok THEN c
    ELSE LET c1 == IF Len(c.entries) = 1
                   THEN [c EXCEPT !.tail = idx]
                   ELSE SetPrev(SetNext(c, idx, c.head), c.head, idx)
         IN  [c1 EXCEPT !.head = idx]

\* Cache::pop_back: the cache after the call; it returns the old c.tail
pop_back(c) ==
    IF ~c.ok \/ ~InBounds(c, c.tail) THEN Panic(c)
    ELSE [c EXCEPT !.tail = c.entries[c.tail + 1].prev]

\* Cache::insert, with cap = self.entries.capacity()
insert(c, cap, val) ==
    IF Len(c.entries) = cap
    THEN LET i  == c.tail
             c1 == pop_back(c)
         IN  IF ~c1.ok THEN c1
             ELSE push_front([c1 EXCEPT !.entries[i + 1] = Entry(val)], i)
    ELSE LET c1 == [c EXCEPT !.entries = Append(@, Entry(val))]
         IN  push_front(c1, Len(c1.entries) - 1)

\* Cache::touch_index
touch_index(c, idx) ==
    IF idx # c.head THEN push_front(remove(c, idx), idx) ELSE c

\* Cache::replace: the cache after the call
replace(c, idx, val) ==
    LET c1 == touch_index(c, idx)
    IN  IF ~c1.ok \/ ~InBounds(c1, idx) THEN Panic(c1)
        ELSE [c1 EXCEPT !.entries[idx + 1].val = val]

\* Cache::replace: the value it returns (read after touch_index)
replaced(c, idx) == touch_index(c, idx).entries[idx + 1].val

\* Cache::get: the cache after the call (it returns entries[idx].val)
cache_get(c, idx) ==
    LET c1 == touch_index(c, idx)
    IN  IF ~c1.ok \/ ~InBounds(c1, idx) THEN Panic(c1) ELSE c1

\* Iter::next from position pos, at most fuel times: the values yielded.
\* pos = cap is the past-the-end position, for which entries.get is None.
RECURSIVE IterFrom(_, _, _, _)
IterFrom(c, cap, pos, fuel) ==
    IF fuel = 0 \/ ~InBounds(c, pos) THEN << >>
    ELSE LET entry == c.entries[pos + 1]
             nxt   == IF pos = c.tail THEN cap ELSE entry.next
         IN  << entry.val >> \o IterFrom(c, cap, nxt, fuel - 1)

\* Cache::iter, LRUMap::iter: the pairs a full traversal yields.  The iterator's
\* only state is pos, so a traversal that yields more than entries.len() values
\* revisits a position and never ends: it is cut after entries.len() + 1 values.
iter(c, cap) == IterFrom(c, cap, c.head, Len(c.entries) + 1)

\* the traversal ends (Iter::next returns None after finitely many calls)
IterEnds(c, cap) == Len(iter(c, cap)) <= Len(c.entries)

----------------------------------------------------------------------------
\* LRUMap<K, T, N> (src/lib.rs)

\* self.indices.insert(key, idx)
IndexInsert(ix, key, idx) ==
    [k \in DOMAIN ix \cup {key} |-> IF k = key THEN idx ELSE ix[k]]

\* the hash map without the keys of S
IndexWithout(ix, S) == [k \in DOMAIN ix \ S |-> ix[k]]

\* the orders a HashMap may iterate the keys of S in
Orders(S) ==
    { o \in [1..Cardinality(S) -> S] : \A i, j \in DOMAIN o : o[i] = o[j] => i = j }

\* the result of a public call: the map afterwards and the value returned
Result(c, ix, ret) == [cache |-> c, indices |-> ix, ret |-> ret]

\* LRUMap::put
put(c, ix, cap, key, value) ==
    IF key \notin DOMAIN ix
    THEN LET c1 == insert(c, cap, << key, value >>)
         IN  IF c1.ok THEN Result(c1, IndexInsert(ix, key, c1.head), None)
                      ELSE Result(c1, ix, None)
    ELSE LET idx == ix[key]
             c1  == replace(c, idx, << key, value >>)
         IN  IF c1.ok THEN Result(c1, ix, Some(replaced(c, idx)[2]))
                      ELSE Result(c1, ix, None)

\* LRUMap::get
get(c, ix, key) ==
    IF key \notin DOMAIN ix THEN Result(c, ix, None)
    ELSE LET idx == ix[key]
             c1  == cache_get(c, idx)
         IN  IF c1.ok THEN Result(c1, ix, Some(c1.entries[idx + 1].val[2]))
                      ELSE Result(c1, ix, None)

\* LRUMap::remove_one
remove_one(c, ix, key) ==
    IF key \in DOMAIN ix
    THEN Result(remove(c, ix[key]), IndexWithout(ix, {key}), None)
    ELSE Result(c, ix, None)

\* the loop of LRUMap::remove over the matching keys, in hash-map order
RECURSIVE RemoveAll(_, _, _)
RemoveAll(c, ix, order) ==
    IF order = << >> THEN c
    ELSE RemoveAll(remove(c, ix[Head(order)]), ix, Tail(order))

\* LRUMap::remove(pred): pred is the set of keys the predicate accepts and order
\* the order in which old_indices yields the matching keys; the keys the predicate
\* rejects are re-inserted into the new hash map and do not reach the cache
remove_pred(c, ix, pred, order) ==
    Result(RemoveAll(c, ix, order), IndexWithout(ix, pred), None)

\* the loop of LRUMap::touch over the matching keys, in hash-map order
RECURSIVE TouchAll(_, _, _)
TouchAll(c, ix, order) ==
    IF order = << >> THEN c
    ELSE TouchAll(touch_index(c, ix[Head(order)]), ix, Tail(order))

\* LRUMap::touch(pred)
touch(c, ix, pred, order) == Result(TouchAll(c, ix, order), ix, None)

\* LRUMap::clear
map_clear(c, ix) == Result(clear(c), << >>, None)

\* LRUMap::len
map_len(c) == len(c)

TypeOK ==
    /\ N \in Capacities
    /\ cache.ok \in BOOLEAN
    /\ cache.head \in 0..N /\ cache.tail \in 0..N
    /\ Len(cache.entries) <= N
    /\ DOMAIN indices \subseteq Keys
    /\ \A k \in DOMAIN indices : indices[k] \in 0..(N - 1)

\* a newly constructed map beside the map under test: its cache, hash index and
\* last return value, whether clear() has been called, and the head the last
\* clear() left in the map under test
FreshDefault ==
    [cache |-> CacheDefault, indices |-> << >>, ret |-> None,
     cleared |-> FALSE, head |-> 0]

\* LRUMap::default
Init ==
    /\ N \in Capacities
    /\ cache = CacheDefault
    /\ indices = << >>
    /\ last = [op |-> "default", key |-> 0, value |-> 0, pred |-> {}, ret |-> None]
    /\ pre = [cache |-> CacheDefault, indices |-> << >>]
    /\ fresh = FreshDefault

\* a public call on a map no earlier call panicked on: the map becomes the call's
\* result r; last and pre record the call and the map it started from
Call(op, key, value, pred, r) ==
    /\ cache.ok
    /\ cache' = r.cache
    /\ indices' = r.indices
    /\ last' = [op |-> op, key |-> key, value |-> value, pred |-> pred, ret |-> r.ret]
    /\ pre' = [cache |-> cache, indices |-> indices]
    /\ UNCHANGED << N, fresh >>

Put(key, value) == Call("put", key, value, {}, put(cache, indices, N, key, value))

Get(key) == Call("get", key, 0, {}, get(cache, indices, key))

RemoveOne(key) == Call("remove_one", key, 0, {}, remove_one(cache, indices, key))

Remove(pred) ==
    \E order \in Orders(DOMAIN indices \cap pred) :
        Call("remove", 0, 0, pred, remove_pred(cache, indices, pred, order))

Touch(pred) ==
    \E order \in Orders(DOMAIN indices \cap pred) :
        Call("touch", 0, 0, pred, touch(cache, indices, pred, order))

Clear == Call("clear", 0, 0, {}, map_clear(cache, indices))

Next ==
    \/ \E key \in Keys, value \in Vals : Put(key, value)
    \/ \E key \in Keys : Get(key)
    \/ \E key \in Keys : RemoveOne(key)
    \/ \E pred \in SUBSET Keys : Remove(pred)
    \/ \E pred \in SUBSET Keys : Touch(pred)
    \/ Clear

Spec == Init /\ [][Next]_vars

----------------------------------------------------------------------------
\* What a caller observes: iterate(), len() and get(key) of the map after the
\* last call, and of the map the last call started from.

\* the pairs iterate() yields
Items == iter(cache, N)
PreItems == iter(pre.cache, N)

\* iterate() ends
Ends == IterEnds(cache, N)
PreEnds == IterEnds(pre.cache, N)

\* the keys among pairs
KeySet(items) == { items[i][1] : i \in DOMAIN items }

\* the held keys: those iterate() yields
Held == KeySet(Items)
PreHeld == KeySet(PreItems)

\* pairs without those of the keys in K, in the same relative order
Without(items, K) == SelectSeq(items, LAMBDA p : p[1] \notin K)

\* what get(key) would return
Lookup(key) == get(cache, indices, key).ret
PreLookup(key) == get(pre.cache, pre.indices, key).ret

\* the map the last call started from held exactly N keys: iterate() ended
\* after N pairs with distinct keys
PreFull == PreEnds /\ Cardinality(PreHeld) = N

\* the last call was put(k, v) of a key that was not held
PutOfNewKey == last.op = "put" /\ last.key \notin PreHeld

\* key was held with value v when the last call started: iterate() ended and
\* yielded (key, v), and get(key) would have returned v
PreHeldWith(key, v) ==
    /\ PreEnds
    /\ \E i \in DOMAIN PreItems : PreItems[i] = << key, v >>
    /\ PreLookup(key) = Some(v)

----------------------------------------------------------------------------
\* C1. Eviction correctness: when the map holds N keys and put(k, v) is called
\* with a key that is not held, iterate() afterwards yields (k, v) first and then
\* the N - 1 pairs iterate() yielded first before the call, unchanged and in the
\* same order: exactly the pair iterate() yielded last is evicted.
C1_EvictsLeastRecent ==
    (PutOfNewKey /\ PreFull) =>
        /\ Ends
        /\ Items = << << last.key, last.value >> >> \o SubSeq(PreItems, 1, N - 1)

\* C2. When put(k, v) of a new key evicts key e (the key of the pair iterate()
\* yielded last, the map holding N keys), then after put the hash index has no
\* entry for e, k is the only key bound to the reused slot, and get(e) is None.
C2_EvictedKeyUnbound ==
    (PutOfNewKey /\ PreFull /\ last.key \notin DOMAIN pre.indices) =>
        LET e == PreItems[N][1]
        IN  /\ e \notin DOMAIN indices
            /\ { k \in DOMAIN indices : indices[k] = cache.head } = { last.key }
            /\ Lookup(e) = None

\* C3. Index consistency: get(key) returns the value iterate() yields for every
\* key iterate() yields, and None for every key iterate() does not yield.
C3_IndexConsistency ==
    /\ \A i \in DOMAIN Items : Lookup(Items[i][1]) = Some(Items[i][2])
    /\ \A k \in Keys \ Held : Lookup(k) = None

\* C4. Recency ordering: a get(k) that hits, or a put(k, v) on a held key, makes
\* k the first pair iterate() yields and leaves the relative order of the other
\* held pairs unchanged.  (The claim's second sentence; k counts as held only
\* when iterate() and get(k) agree on it, the case every reading of the claim
\* covers.)
C4_UseMovesToFront ==
    (last.op \in {"get", "put"} /\ \E v \in Vals : PreHeldWith(last.key, v)) =>
        /\ Ends
        /\ Items # << >>
        /\ Items[1][1] = last.key
        /\ Without(Items, {last.key}) = Without(PreItems, {last.key})

\* C5. Capacity bound: len() never exceeds N and iterate() never yields more
\* than N pairs.
C5_CapacityBound ==
    /\ map_len(cache) <= N
    /\ Ends
    /\ Len(Items) <= N

\* C6. Replace semantics: put(k, v2) on a key held with value v1 (iterate()
\* yields (k, v1) and get(k) would return v1) returns Some(v1), leaves len() and
\* the set of held keys unchanged, and a following get(k) returns v2.
C6_ReplaceSemantics ==
    \A v1 \in Vals :
        (last.op = "put" /\ PreHeldWith(last.key, v1)) =>
            /\ last.ret = Some(v1)
            /\ map_len(cache) = map_len(pre.cache)
            /\ Held = PreHeld
            /\ Lookup(last.key) = Some(last.value)

\* C7. put(k, v) returns None whenever k is not held; afterwards k is held with
\* value v and (k, v) is the first pair iterate() yields.
C7_PutNewReturnsNone ==
    PutOfNewKey =>
        /\ last.ret = None
        /\ Lookup(last.key) = Some(last.value)
        /\ Items # << >>
        /\ Items[1] = << last.key, last.value >>

\* C8. len() equals the number of pairs iterate() yields and the number of keys
\* in the hash index; remove_one on a held key and remove(pred) decrease len()
\* by the number of keys they remove.
C8_LenCountsHeld ==
    /\ map_len(cache) = Len(Items)
    /\ map_len(cache) = Cardinality(DOMAIN indices)
    /\ (last.op = "remove_one" /\ last.key \in PreHeld) =>
           map_len(cache) = map_len(pre.cache) - 1
    /\ last.op = "remove" =>
           map_len(cache) = map_len(pre.cache) - Cardinality(PreHeld \cap last.pred)

\* C9. remove_one(k) on a held key k (iterate() yields it and get(k) hits), at
\* any position: afterwards get(k) is None, iterate() does not yield k, and
\* iterate() yields every other pair unchanged and in the same relative order.
C9_RemoveOneHeld ==
    (last.op = "remove_one" /\ \E v \in Vals : PreHeldWith(last.key, v)) =>
        /\ Lookup(last.key) = None
        /\ last.key \notin Held
        /\ Items = Without(PreItems, {last.key})

\* C10. remove_one(k) on a key that is not held is a no-op: iterate() yields the
\* same pairs in the same order and len() is unchanged.
C10_RemoveOneAbsentNoOp ==
    (last.op = "remove_one" /\ last.key \notin PreHeld) =>
        /\ Items = PreItems
        /\ map_len(cache) = map_len(pre.cache)

\* C11. Clear: after clear(), whatever the map was before, len() is 0, iterate()
\* yields nothing and get(k) returns None for every key k.
C11_ClearEmpties ==
    last.op = "clear" =>
        /\ map_len(cache) = 0
        /\ Items = << >>
        /\ \A k \in Keys : Lookup(k) = None

\* clear() has acted on a full map that had evicted a key: N entries, pairs to
\* iterate over, and more than N keys bound in the hash index
C11_ClearOfFullMap ==
    /\ last.op = "clear"
    /\ map_len(pre.cache) = N
    /\ PreItems # << >>
    /\ Cardinality(DOMAIN pre.indices) > N
    /\ pre.cache.head # 0

\* the last call removed the only held key: remove_one(k) on a map where
\* iterate() yielded k alone and get(k) hit
RemovedLastHeld ==
    /\ \E v \in Vals : PreItems = << << last.key, v >> >> /\ PreHeldWith(last.key, v)
    /\ last.op = "remove_one"

\* C12. iterate() is a finite sequence: it ends, yields at most len() pairs, and
\* yields nothing when the last held key has just been removed.
C12_IterateFinite ==
    /\ Ends
    /\ Len(Items) <= map_len(cache)
    /\ RemovedLastHeld => Items = << >>

\* iterate() and the hash index agreed on the map the last call started from:
\* iterate() ended, yielded each key once, yielded exactly the bound keys, and
\* get returned the value iterate() yielded
PreAgreed ==
    /\ PreEnds
    /\ PreHeld = DOMAIN pre.indices
    /\ Len(PreItems) = Cardinality(PreHeld)
    /\ \A i \in DOMAIN PreItems : PreLookup(PreItems[i][1]) = Some(PreItems[i][2])

\* C13. remove(pred) removes exactly the held keys pred accepts, whatever the
\* order the hash index is iterated in: afterwards no accepted key is returned by
\* get or yielded by iterate(), and every other held key is still yielded with
\* its value in the same relative order and is bound to the same slot.
C13_RemoveExactlyMatching ==
    (last.op = "remove" /\ PreAgreed) =>
        /\ \A k \in last.pred : Lookup(k) = None /\ k \notin Held
        /\ Items = Without(PreItems, last.pred)
        /\ \A k \in PreHeld \ last.pred :
               k \in DOMAIN indices /\ indices[k] = pre.indices[k]

\* the positions in items of pairs whose key is in K
Positions(items, K) == { i \in DOMAIN items : items[i][1] \in K }

\* C14. touch(pred) removes nothing and changes no value: afterwards iterate()
\* yields the same pairs, every pair whose key pred accepts before every pair
\* whose key it rejects, and the rejected pairs in their previous relative order.
C14_TouchPromotesMatching ==
    (last.op = "touch" /\ PreEnds) =>
        /\ Ends
        /\ Len(Items) = Len(PreItems)
        /\ { Items[i] : i \in DOMAIN Items } = { PreItems[i] : i \in DOMAIN PreItems }
        /\ \A i \in Positions(Items, last.pred) :
               \A j \in DOMAIN Items \ Positions(Items, last.pred) : i < j
        /\ Without(Items, last.pred) = Without(PreItems, last.pred)

\* the slots Iter::next visits from position pos, at most fuel of them
RECURSIVE SlotsFrom(_, _, _, _)
SlotsFrom(c, cap, pos, fuel) ==
    IF fuel = 0 \/ ~InBounds(c, pos) THEN << >>
    ELSE << pos >> \o SlotsFrom(c, cap, IF pos = c.tail THEN cap ELSE c.entries[pos + 1].next,
                                fuel - 1)

\* the slots of the recency list, from head along next
ListSlots == SlotsFrom(cache, N, cache.head, Len(cache.entries) + 1)

\* the slots reached from pos along prev, stopping after head, at most fuel of them
RECURSIVE SlotsBack(_, _, _)
SlotsBack(c, pos, fuel) ==
    IF fuel = 0 \/ ~InBounds(c, pos) THEN << >>
    ELSE << pos >> \o (IF pos = c.head THEN << >>
                       ELSE SlotsBack(c, c.entries[pos + 1].prev, fuel - 1))

\* the slots of the recency list, from tail along prev
ListSlotsBack == SlotsBack(cache, cache.tail, Len(cache.entries) + 1)

\* the elements of a sequence, and the sequence reversed
Range(seq) == { seq[i] : i \in DOMAIN seq }
Reverse(seq) == [i \in 1..Len(seq) |-> seq[Len(seq) + 1 - i]]

\* C15. Hash-index/list consistency: every binding (key, idx) of the hash index
\* names a slot of the recency list that stores key, and the key stored in every
\* slot of the recency list is bound to that slot.
C15_IndexMatchesList ==
    /\ \A k \in DOMAIN indices :
           /\ indices[k] \in Range(ListSlots)
           /\ cache.entries[indices[k] + 1].val[1] = k
    /\ \A i \in Range(ListSlots) :
           LET k == cache.entries[i + 1].val[1]
           IN  k \in DOMAIN indices /\ indices[k] = i

\* C16. Recency-list structure: whenever a key is bound in the hash index, the
\* next links from head visit every bound slot exactly once and end at tail, the
\* prev links from tail visit the same slots in reverse order and end at head,
\* and with one bound key head = tail = its slot.
C16_ListWellFormed ==
    DOMAIN indices # {} =>
        /\ Ends
        /\ Cardinality(Range(ListSlots)) = Len(ListSlots)
        /\ Range(ListSlots) = { indices[k] : k \in DOMAIN indices }
        /\ ListSlots[Len(ListSlots)] = cache.tail
        /\ ListSlotsBack = Reverse(ListSlots)
        /\ Cardinality(DOMAIN indices) = 1 =>
               \A k \in DOMAIN indices : cache.head = indices[k] /\ cache.tail = indices[k]

\* C17. put(k, v) of a new key while fewer than N keys are held evicts nothing:
\* afterwards iterate() yields (k, v) and then every pair it yielded before, in
\* the same order.
C17_NoEvictionBelowCapacity ==
    (/\ last.op = "put"
     /\ last.key \notin DOMAIN pre.indices
     /\ PreAgreed
     /\ Cardinality(PreHeld) < N) =>
        /\ Ends
        /\ Items = << << last.key, last.value >> >> \o PreItems

\* C19. iterate() never yields the same key twice.
C19_NoDuplicateKeys ==
    \A i, j \in DOMAIN Items : Items[i][1] = Items[j][1] => i = j

----------------------------------------------------------------------------
\* Construction with any capacity, N = 0 and a capacity the assertion of
\* Cache::default rejects included.

\* u16::max_value()
U16Max == 65535

\* Cache::default for capacity cap: the assertion capacity < u16::max_value()
\* panics otherwise
default(cap) == IF cap < U16Max THEN CacheDefault ELSE Panic(CacheDefault)

InitAnyN ==
    /\ N \in (0..MaxN) \cup {U16Max}
    /\ cache = default(N)
    /\ indices = << >>
    /\ last = [op |-> "default", key |-> 0, value |-> 0, pred |-> {}, ret |-> None]
    /\ pre = [cache |-> default(N), indices |-> << >>]
    /\ fresh = FreshDefault

SpecAnyN == InitAnyN /\ [][Next]_vars

\* C18. For every capacity construction accepts (N < 65535) no call panics: no
\* slot access is out of the bounds of the ArrayVec.
C18_NoAbort == N < U16Max => cache.ok

----------------------------------------------------------------------------
\* The map under test beside a newly constructed map: every call is made on both,
\* and clear() replaces the second by a newly constructed one.

\* a public call on both maps: r is its result on the map under test, f on the
\* newly constructed one; last records the call's name and return value only
CallBoth(op, r, f) ==
    /\ cache.ok
    /\ cache' = r.cache
    /\ indices' = r.indices
    /\ last' = [op |-> op, key |-> 0, value |-> 0, pred |-> {}, ret |-> r.ret]
    /\ fresh' = [fresh EXCEPT !.cache = f.cache, !.indices = f.indices, !.ret = f.ret]
    /\ UNCHANGED << N, pre >>

PutBoth(key, value) ==
    CallBoth("put", put(cache, indices, N, key, value),
             put(fresh.cache, fresh.indices, N, key, value))

GetBoth(key) ==
    CallBoth("get", get(cache, indices, key),
             get(fresh.cache, fresh.indices, key))

RemoveOneBoth(key) ==
    CallBoth("remove_one", remove_one(cache, indices, key),
             remove_one(fresh.cache, fresh.indices, key))

\* the two hash maps iterate the same keys in the same order
SameOrder(order, forder) ==
    DOMAIN indices = DOMAIN fresh.indices => forder = order

RemoveBoth(pred) ==
    \E order \in Orders(DOMAIN indices \cap pred),
       forder \in Orders(DOMAIN fresh.indices \cap pred) :
        /\ SameOrder(order, forder)
        /\ CallBoth("remove", remove_pred(cache, indices, pred, order),
                    remove_pred(fresh.cache, fresh.indices, pred, forder))

TouchBoth(pred) ==
    \E order \in Orders(DOMAIN indices \cap pred),
       forder \in Orders(DOMAIN fresh.indices \cap pred) :
        /\ SameOrder(order, forder)
        /\ CallBoth("touch", touch(cache, indices, pred, order),
                    touch(fresh.cache, fresh.indices, pred, forder))

\* clear() on the map under test; the other map is constructed anew
ClearBoth ==
    /\ cache.ok
    /\ cache' = map_clear(cache, indices).cache
    /\ indices' = map_clear(cache, indices).indices
    /\ last' = [op |-> "clear", key |-> 0, value |-> 0, pred |-> {}, ret |-> None]
    /\ fresh' = [FreshDefault EXCEPT !.cleared = TRUE,
                                     !.head = map_clear(cache, indices).cache.head]
    /\ UNCHANGED << N, pre >>

NextBoth ==
    \/ \E key \in Keys, value \in Vals : PutBoth(key, value)
    \/ \E key \in Keys : GetBoth(key)
    \/ \E key \in Keys : RemoveOneBoth(key)
    \/ \E pred \in SUBSET Keys : RemoveBoth(pred)
    \/ \E pred \in SUBSET Keys : TouchBoth(pred)
    \/ ClearBoth

SpecBoth == InitAnyN /\ [][NextBoth]_vars

\* C20. After clear() the map behaves as a newly constructed map: for the calls
\* made since the clear, every return value, len() and iterate() equal those of
\* a new map given the same calls, and a call panics on both or on neither.
C20_ClearedEqualsFresh ==
    fresh.cleared =>
        /\ last.ret = fresh.ret
        /\ map_len(cache) = map_len(fresh.cache)
        /\ iter(cache, N) = iter(fresh.cache, N)
        /\ cache.ok = fresh.cache.ok

\* a get hit on a map of two pairs, filled after a clear() that left head at a
\* slot other than 0
C20_UsedAfterStaleClear ==
    /\ fresh.cleared
    /\ fresh.head # 0
    /\ last.op = "get" /\ last.ret # None
    /\ Len(Items) = 2

====
